---- MODULE Spec2Model ----
(***************************************************************************)
(* Model of the substratus controller code: the Dataset reconciler         *)
(* (dataset_controller.go), its helpers (utils.go: conditionsReady,        *)
(* parseBucketURL, mountDataset, mountSavedModel, reconcileJob) and the    *)
(* BindIdentity call of the cloud abstraction protocol.                    *)
(*                                                                         *)
(* Strings that the code parses are sequences of tokens: a token is either *)
(* a delimiter character (":", "/", " ") or an atom, a run of characters   *)
(* holding no delimiter.  The empty string is the empty sequence.          *)
(***************************************************************************)
EXTENDS Integers, Sequences, FiniteSets, TLC

VARIABLES
    \* ---- API server (persisted) state
    dsExists,       \* dsExists[d]: the Dataset object d exists
    dsStatus,       \* dsStatus[d]: its persisted status {url, ready, conds}
    containerDone,  \* containerDone[d]: the container-build stage of d has finished
    serviceAccounts,\* set of ServiceAccount objects
    jobs,           \* set of Job objects
    faults,         \* number of API-server failures injected so far
    \* ---- controller configuration
    cloudName,      \* r.CloudContext.Name
    schemeOK,       \* the runtime.Scheme knows the Dataset kind
    \* ---- one in-flight Reconcile per Dataset
    pc,             \* position of the pass for d
    local,          \* the in-memory dataset.Status of the pass
    saFound,        \* what CreateOrUpdate's Get saw
    ret,            \* what the last finished pass returned
    ops,            \* API operations the current/last pass performed
    entryURL,       \* dataset.Status.URL on entry to reconcileData
    jobSeen,        \* job.Status.Succeeded as re-read by reconcileJob (-1: not read)
    \* ---- conditionsReady as a pure function
    cConds, cRequired, cResult,
    \* ---- storage mount resolver
    uRaw, uParsed, uVolumes, uMounts, uMountErr, uBuilt,
    \* ---- BindIdentity
    trustPolicy,    \* trustPolicy[role]: the statements of the role's trust policy
    bindCalls,      \* bindCalls[request]: BindIdentity calls made with that request
    bindResp,       \* the last call's request and answer
    \* ---- the apply command
    aFlagNs,        \* flags.namespace
    aKubeNs,        \* the namespace of the kubeconfig's current context
    aManifestNs,    \* .metadata.namespace of the manifest
    aPc,            \* position in run
    aNamespace,     \* the local variable namespace
    aObjNs,         \* obj.GetNamespace()
    aErr,           \* the error run returned
    aModel,         \* the ApplyModel the program was started with
    \* ---- nextPowOf2
    pN, pK, pPc     \* the argument, the local k, the position in the loop

vars == << dsExists, dsStatus, containerDone, serviceAccounts, jobs, faults,
           cloudName, schemeOK, pc, local, saFound, ret, ops, entryURL, jobSeen,
           cConds, cRequired, cResult,
           uRaw, uParsed, uVolumes, uMounts, uMountErr, uBuilt,
           trustPolicy, bindCalls, bindResp,
           aFlagNs, aKubeNs, aManifestNs, aPc, aNamespace, aObjNs, aErr, aModel,
           pN, pK, pPc >>

recVars  == << dsExists, dsStatus, containerDone, serviceAccounts, jobs, faults,
               cloudName, schemeOK, pc, local, saFound, ret, ops, entryURL, jobSeen >>
condVars == << cConds, cRequired, cResult >>
urlVars  == << uRaw, uParsed, uVolumes, uMounts, uMountErr, uBuilt >>
bindVars == << trustPolicy, bindCalls, bindResp >>
applyVars == << aFlagNs, aKubeNs, aManifestNs, aPc, aNamespace, aObjNs, aErr, aModel >>
powVars  == << pN, pK, pPc >>

(***************************************************************************)
(* Bounds of the model.                                                    *)
(***************************************************************************)
MaxSucceeded == 1      \* cap of job.Status.Succeeded
MaxFaults    == 1      \* cap of injected API failures

(***************************************************************************)
(* Names.                                                                  *)
(***************************************************************************)
Datasets   == {"d1", "d2"}
Namespace  == "default"
ProjectID  == "proj"
UID(d)     == IF d = "d1" THEN "uid-1" ELSE "uid-2"
Filename(d) == "f.json"
Clouds     == {"gcp", "aws"}

ReasonLoading == "Loading"
ReasonLoaded  == "Loaded"
dataLoaderServiceAccountName == "data-loader"
ConditionContainerReady == "ContainerReady"
ConditionDataReady      == "DataReady"

NoErr == "nil"

(***************************************************************************)
(* Condition model.                                                        *)
(***************************************************************************)
SetMax(S) == CHOOSE x \in S : \A y \in S : y <= x

\* actualConditions[t] of conditionsReady: the loop assigns in list order, so the
\* last entry of a type wins; a type never assigned reads as false.
actualConditions(conds, t) ==
    LET idx == { i \in DOMAIN conds : conds[i].type = t }
    IN  idx # {} /\ conds[SetMax(idx)].status = "True"

conditionsReadyIgnoringFlag(conds, required) ==
    \A t \in DOMAIN required : actualConditions(conds, t)

conditionsReady(conds, required) ==
    \A t \in DOMAIN required : ~(required[t] /\ ~actualConditions(conds, t))

\* meta.SetStatusCondition: upsert by type.
SetStatusCondition(conds, type, status) ==
    IF \E i \in DOMAIN conds : conds[i].type = type
    THEN [ i \in DOMAIN conds |->
             IF conds[i].type = type THEN [type |-> type, status |-> status]
                                     ELSE conds[i] ]
    ELSE Append(conds, [type |-> type, status |-> status])

DatasetRequired ==
    [ t \in {ConditionContainerReady, ConditionDataReady} |-> TRUE ]

(***************************************************************************)
(* Objects.                                                                *)
(***************************************************************************)
EmptyStatus == [url |-> << >>, ready |-> FALSE, conds |-> << >>]
NoRet       == [stage |-> "none", success |-> FALSE, requeue |-> FALSE, err |-> NoErr]

JobName(d) == << d, "-data-loader" >>

ArtifactURLNoUID(d) ==
    << "gcs", ":", "/", "/", "proj-substratus-datasets", "/", "data", "/", Filename(d) >>

\* The URL loadJob writes into dataset.Status.URL on GCP.
ArtifactURL(d) ==
    << "gcs", ":", "/", "/", "proj-substratus-datasets", "/", UID(d), "/", "data",
       "/", Filename(d) >>

GCPServiceAccountAnnotation(name) ==
    << "substratus-", name, "@", ProjectID, ".iam.gserviceaccount.com" >>

(***************************************************************************)
(* API server calls, as the client library answers them.  fail is a        *)
(* failure of the call itself (server unreachable, conflict).              *)
(***************************************************************************)
ClientCreateJobReplaces(J, job, fail) ==
    IF fail THEN [jobs |-> J, err |-> "ServerError"]
    ELSE [jobs |-> { j \in J : ~(j.name = job.name /\ j.ns = job.ns) } \cup {job},
          err  |-> NoErr]

\* c.Create(ctx, job): names are unique in a namespace.
ClientCreateJob(J, job, fail) ==
    IF fail THEN [jobs |-> J, err |-> "ServerError"]
    ELSE IF \E j \in J : j.name = job.name /\ j.ns = job.ns
         THEN [jobs |-> J, err |-> "AlreadyExists"]
         ELSE [jobs |-> J \cup {job}, err |-> NoErr]

ClientGetJobAny(J, job, fail) ==
    IF fail THEN [succeeded |-> -1, err |-> "ServerError"]
    ELSE IF J # {}
         THEN [succeeded |-> SetMax({ j.succeeded : j \in J }), err |-> NoErr]
         ELSE [succeeded |-> -1, err |-> "NotFound"]

\* c.Get(ctx, client.ObjectKeyFromObject(job), job): the job of that name.
ClientGetJob(J, job, fail) ==
    IF fail THEN [succeeded |-> -1, err |-> "ServerError"]
    ELSE IF \E j \in J : j.name = job.name /\ j.ns = job.ns
         THEN [succeeded |-> (CHOOSE j \in J : j.name = job.name /\ j.ns = job.ns).succeeded,
               err |-> NoErr]
         ELSE [succeeded |-> -1, err |-> "NotFound"]

IgnoreNothing(err) == err

IgnoreEverything(err) == NoErr

\* client.IgnoreNotFound
IgnoreNotFound(err) == IF err = "NotFound" THEN NoErr ELSE err

\* client.IgnoreAlreadyExists
IgnoreAlreadyExists(err) == IF err = "AlreadyExists" THEN NoErr ELSE err

(***************************************************************************)
(* reconcileJob.  Errors are wrapped with %w, which keeps their kind.      *)
(***************************************************************************)
\* c.Create(ctx, job) and its error check.
reconcileJobCreate(J, job, fail) ==
    LET c == ClientCreateJob(J, job, fail)
    IN  [jobs |-> c.jobs, raw |-> c.err, err |-> IgnoreAlreadyExists(c.err)]

reconcileJobGetNoThreshold(J, job, fail) ==
    LET g == ClientGetJob(J, job, fail)
    IN  IF g.err # NoErr
        THEN [success |-> FALSE, requeue |-> FALSE, err |-> g.err, seen |-> -1]
        ELSE [success |-> TRUE, requeue |-> FALSE, err |-> NoErr, seen |-> g.succeeded]

reconcileJobGetThresholdTwo(J, job, fail) ==
    LET g == ClientGetJob(J, job, fail)
    IN  IF g.err # NoErr
        THEN [success |-> FALSE, requeue |-> FALSE, err |-> g.err, seen |-> -1]
        ELSE IF g.succeeded < 2
             THEN [success |-> FALSE, requeue |-> FALSE, err |-> NoErr, seen |-> g.succeeded]
             ELSE [success |-> TRUE, requeue |-> FALSE, err |-> NoErr, seen |-> g.succeeded]

\* c.Get(ctx, key, job) and the classification by job.Status.Succeeded.
reconcileJobGet(J, job, fail) ==
    LET g == ClientGetJob(J, job, fail)
    IN  IF g.err # NoErr
        THEN [success |-> FALSE, requeue |-> FALSE, err |-> g.err, seen |-> -1]
        ELSE IF g.succeeded < 1
             THEN [success |-> FALSE, requeue |-> FALSE, err |-> NoErr, seen |-> g.succeeded]
             ELSE [success |-> TRUE, requeue |-> FALSE, err |-> NoErr, seen |-> g.succeeded]

\* The whole function, run without interruption on the job collection J.
reconcileJob(J, job, failCreate, failGet) ==
    LET c == reconcileJobCreate(J, job, failCreate)
    IN  IF c.err # NoErr
        THEN [jobs |-> c.jobs, success |-> FALSE, requeue |-> FALSE, err |-> c.err]
        ELSE LET g == reconcileJobGet(c.jobs, job, failGet)
             IN  [jobs |-> c.jobs, success |-> g.success, requeue |-> g.requeue,
                  err |-> g.err]

(***************************************************************************)
(* DatasetReconciler helpers.                                              *)
(***************************************************************************)
AnnotationKey == "iam.gke.io/gcp-service-account"

NewServiceAccount ==
    [name |-> dataLoaderServiceAccountName, ns |-> Namespace, annotations |-> << >>]

\* annotations are pairs <<key, value>>, at most one per key.
SetAnnotation(anns, key, value) ==
    IF \E i \in DOMAIN anns : anns[i][1] = key
    THEN [ i \in DOMAIN anns |-> IF anns[i][1] = key THEN << key, value >> ELSE anns[i] ]
    ELSE Append(anns, << key, value >>)

authNServiceAccountAnyCloud(sa, cloud) ==
    [sa  |-> [sa EXCEPT !.annotations =
                 SetAnnotation(@, AnnotationKey, GCPServiceAccountAnnotation(sa.name))],
     err |-> NoErr]

\* authNServiceAccount: the annotation on GCP, an error on any other cloud.
authNServiceAccount(sa, cloud) ==
    IF cloud = "gcp"
    THEN [sa  |-> [sa EXCEPT !.annotations =
                      SetAnnotation(@, AnnotationKey, GCPServiceAccountAnnotation(sa.name))],
          err |-> NoErr]
    ELSE [sa |-> sa, err |-> "UnsupportedCloud"]

\* loadJob: the job it builds, the value it leaves in dataset.Status.URL, its error.
loadJob(d, url, cloud, scheme) ==
    [ job |-> [ name      |-> JobName(d),
                ns        |-> Namespace,
                owner     |-> UID(d),
                sa        |-> dataLoaderServiceAccountName,
                subPaths  |-> { << UID(d), "/data" >>, << UID(d), "/logs" >> },
                volumes   |-> IF cloud = "gcp" THEN {"data"} ELSE {},
                succeeded |-> 0 ],
      url |-> IF cloud = "gcp" THEN ArtifactURL(d) ELSE url,
      err |-> IF scheme THEN NoErr ELSE "SetControllerReference" ]

(***************************************************************************)
(* Reconcile, one step per API call.                                       *)
(***************************************************************************)
FailChoices == IF faults < MaxFaults THEN BOOLEAN ELSE {FALSE}

Return(d, stage, success, err) ==
    /\ ret' = [ret EXCEPT ![d] = [stage |-> stage, success |-> success,
                                  requeue |-> FALSE, err |-> err]]
    /\ pc' = [pc EXCEPT ![d] = "done"]

Did(d, what) == ops' = [ops EXCEPT ![d] = @ \cup what]

\* A change notification for d is dispatched.
Trigger(d) ==
    /\ UNCHANGED << condVars, urlVars, bindVars, applyVars, powVars >>
    /\ pc[d] \in {"idle", "done"}
    /\ pc' = [pc EXCEPT ![d] = "get"]
    /\ ret' = [ret EXCEPT ![d] = NoRet]
    /\ ops' = [ops EXCEPT ![d] = {}]
    /\ local' = [local EXCEPT ![d] = EmptyStatus]
    /\ saFound' = [saFound EXCEPT ![d] = {}]
    /\ entryURL' = [entryURL EXCEPT ![d] = << >>]
    /\ jobSeen' = [jobSeen EXCEPT ![d] = -1]
    /\ UNCHANGED << dsExists, dsStatus, containerDone, serviceAccounts, jobs, faults,
                    cloudName, schemeOK >>

\* r.Get(ctx, req.NamespacedName, &dataset); ops records the client's answer.
ReconcileGet(d) ==
    /\ UNCHANGED << condVars, urlVars, bindVars, applyVars, powVars >>
    /\ pc[d] = "get"
    /\ \E fail \in FailChoices :
         /\ faults' = IF fail THEN faults + 1 ELSE faults
         /\ IF fail
            THEN /\ Return(d, "get", FALSE, IgnoreNotFound("ServerError"))
                 /\ Did(d, {"get:error"})
                 /\ UNCHANGED local
            ELSE IF ~dsExists[d]
                 THEN /\ Return(d, "get", FALSE, IgnoreNotFound("NotFound"))
                      /\ Did(d, {"get:notfound"})
                      /\ UNCHANGED local
                 ELSE /\ local' = [local EXCEPT ![d] = dsStatus[d]]
                      /\ Did(d, {"get:found"})
                      /\ pc' = [pc EXCEPT ![d] = "container"]
                      /\ UNCHANGED ret
    /\ UNCHANGED << dsExists, dsStatus, containerDone, serviceAccounts, jobs,
                    cloudName, schemeOK, saFound, entryURL, jobSeen >>

\* r.ReconcileContainer(ctx, &dataset)
ReconcileContainer(d) ==
    /\ UNCHANGED << condVars, urlVars, bindVars, applyVars, powVars >>
    /\ pc[d] = "container"
    /\ IF ~containerDone[d]
       THEN /\ Return(d, "container", FALSE, NoErr)
            /\ UNCHANGED << local, dsStatus, ops >>
       ELSE LET st == [local[d] EXCEPT
                         !.conds = SetStatusCondition(@, ConditionContainerReady, "True")]
            IN  IF dsExists[d]
                THEN /\ local' = [local EXCEPT ![d] = st]
                     /\ dsStatus' = [dsStatus EXCEPT ![d] = st]
                     /\ Did(d, {"container:status_update"} \cup
                               IF st # dsStatus[d] THEN {"container:status_changed"}
                                                   ELSE {})
                     /\ pc' = [pc EXCEPT ![d] = "data"]
                     /\ UNCHANGED ret
                ELSE /\ Return(d, "container", FALSE, "NotFound")
                     /\ UNCHANGED << local, dsStatus, ops >>
    /\ UNCHANGED << dsExists, containerDone, serviceAccounts, jobs, faults,
                    cloudName, schemeOK, saFound, entryURL, jobSeen >>

urlAlreadySetNever(url) == FALSE

urlAlreadySetAlways(url) == TRUE

\* reconcileData: dataset.Status.URL != ""
urlAlreadySet(url) == url # << >>

\* reconcileData: the check of dataset.Status.URL.
ReconcileDataEnter(d) ==
    /\ UNCHANGED << condVars, urlVars, bindVars, applyVars, powVars >>
    /\ pc[d] = "data"
    /\ entryURL' = [entryURL EXCEPT ![d] = local[d].url]
    /\ pc' = [pc EXCEPT ![d] = IF urlAlreadySet(local[d].url) THEN "readiness"
                                                             ELSE "sa_get"]
    /\ UNCHANGED << dsExists, dsStatus, containerDone, serviceAccounts, jobs, faults,
                    cloudName, schemeOK, local, saFound, ret, ops, jobSeen >>

\* controllerutil.CreateOrUpdate: its Get of the service account.
ServiceAccountGet(d) ==
    /\ UNCHANGED << condVars, urlVars, bindVars, applyVars, powVars >>
    /\ pc[d] = "sa_get"
    /\ saFound' = [saFound EXCEPT ![d] =
                     { s \in serviceAccounts :
                         s.name = dataLoaderServiceAccountName /\ s.ns = Namespace }]
    /\ Did(d, {"data:sa_get"})
    /\ pc' = [pc EXCEPT ![d] = "sa_write"]
    /\ UNCHANGED << dsExists, dsStatus, containerDone, serviceAccounts, jobs, faults,
                    cloudName, schemeOK, local, ret, entryURL, jobSeen >>

\* controllerutil.CreateOrUpdate: the mutate function, then Create or Update.
ServiceAccountWrite(d) ==
    /\ UNCHANGED << condVars, urlVars, bindVars, applyVars, powVars >>
    /\ pc[d] = "sa_write"
    /\ LET base == IF saFound[d] = {} THEN NewServiceAccount
                   ELSE CHOOSE s \in saFound[d] : TRUE
           m    == authNServiceAccount(base, cloudName)
           taken == \E s \in serviceAccounts : s.name = base.name /\ s.ns = base.ns
       IN  IF m.err # NoErr
           THEN /\ Return(d, "data", FALSE, m.err)
                /\ UNCHANGED << serviceAccounts, ops >>
           ELSE IF saFound[d] = {}
                THEN IF taken
                     THEN /\ Return(d, "data", FALSE, "AlreadyExists")
                          /\ UNCHANGED << serviceAccounts, ops >>
                     ELSE /\ serviceAccounts' = serviceAccounts \cup {m.sa}
                          /\ Did(d, {"data:sa_create"})
                          /\ pc' = [pc EXCEPT ![d] = "loadjob"]
                          /\ UNCHANGED ret
                ELSE IF m.sa = base
                     THEN /\ pc' = [pc EXCEPT ![d] = "loadjob"]
                          /\ UNCHANGED << serviceAccounts, ops, ret >>
                     ELSE /\ serviceAccounts' =
                               { s \in serviceAccounts :
                                   ~(s.name = base.name /\ s.ns = base.ns) } \cup {m.sa}
                          /\ Did(d, {"data:sa_update"})
                          /\ pc' = [pc EXCEPT ![d] = "loadjob"]
                          /\ UNCHANGED ret
    /\ UNCHANGED << dsExists, dsStatus, containerDone, jobs, faults,
                    cloudName, schemeOK, local, saFound, entryURL, jobSeen >>

loadJobFailurePropagated(err) == err

\* reconcileData: what it returns as its error when loadJob failed ("No use in
\* retrying"): nil.
loadJobFailure(err) == NoErr

\* r.loadJob(ctx, dataset) and the handling of its error.
ReconcileLoadJob(d) ==
    /\ UNCHANGED << condVars, urlVars, bindVars, applyVars, powVars >>
    /\ pc[d] = "loadjob"
    /\ LET lj == loadJob(d, local[d].url, cloudName, schemeOK)
       IN  /\ local' = [local EXCEPT ![d].url = lj.url]
           /\ Did(d, {"data:load_job"})
           /\ IF lj.err # NoErr
              THEN Return(d, "data", FALSE, loadJobFailure(lj.err))
              ELSE pc' = [pc EXCEPT ![d] = "job_create"] /\ UNCHANGED ret
    /\ UNCHANGED << dsExists, dsStatus, containerDone, serviceAccounts, jobs, faults,
                    cloudName, schemeOK, saFound, entryURL, jobSeen >>

\* reconcileJob: c.Create
ReconcileJobCreate(d) ==
    /\ UNCHANGED << condVars, urlVars, bindVars, applyVars, powVars >>
    /\ pc[d] = "job_create"
    /\ \E fail \in FailChoices :
         LET job == loadJob(d, local[d].url, cloudName, schemeOK).job
             c   == reconcileJobCreate(jobs, job, fail)
         IN  /\ faults' = IF fail THEN faults + 1 ELSE faults
             /\ jobs' = c.jobs
             /\ IF c.err # NoErr
                THEN Return(d, "data", FALSE, c.err) /\ UNCHANGED ops
                ELSE /\ Did(d, IF c.raw = "AlreadyExists" THEN {"data:job_exists"}
                                                         ELSE {"data:job_create"})
                     /\ pc' = [pc EXCEPT ![d] = "job_get"]
                     /\ UNCHANGED ret
    /\ UNCHANGED << dsExists, dsStatus, containerDone, serviceAccounts,
                    cloudName, schemeOK, local, saFound, entryURL, jobSeen >>

\* reconcileJob: c.Get and the result; reconcileData's return on success.
ReconcileJobGet(d) ==
    /\ UNCHANGED << condVars, urlVars, bindVars, applyVars, powVars >>
    /\ pc[d] = "job_get"
    /\ \E fail \in FailChoices :
         LET job == loadJob(d, local[d].url, cloudName, schemeOK).job
             g   == reconcileJobGet(jobs, job, fail)
         IN  /\ faults' = IF fail THEN faults + 1 ELSE faults
             /\ jobSeen' = [jobSeen EXCEPT ![d] = g.seen]
             /\ Did(d, {"data:job_get"})
             /\ IF ~g.success
                THEN Return(d, "data", FALSE, g.err)
                ELSE pc' = [pc EXCEPT ![d] = "readiness"] /\ UNCHANGED ret
    /\ UNCHANGED << dsExists, dsStatus, containerDone, serviceAccounts, jobs,
                    cloudName, schemeOK, local, saFound, entryURL >>

\* reconcileReadiness(ctx, r.Client, &dataset, required)
ReconcileReadiness(d) ==
    /\ UNCHANGED << condVars, urlVars, bindVars, applyVars, powVars >>
    /\ pc[d] = "readiness"
    /\ LET rdy == conditionsReady(local[d].conds, DatasetRequired)
           st  == [local[d] EXCEPT !.ready = rdy]
       IN  IF dsExists[d]
           THEN /\ local' = [local EXCEPT ![d] = st]
                /\ dsStatus' = [dsStatus EXCEPT ![d] = st]
                /\ Did(d, {"readiness:status_update"})
                /\ Return(d, "readiness", rdy, NoErr)
           ELSE /\ Return(d, "readiness", FALSE, "NotFound")
                /\ UNCHANGED << local, dsStatus, ops >>
    /\ UNCHANGED << dsExists, containerDone, serviceAccounts, jobs, faults,
                    cloudName, schemeOK, saFound, entryURL, jobSeen >>

(***************************************************************************)
(* The environment: the user, the image builder, the job controller.       *)
(***************************************************************************)
DeleteDataset(d) ==
    /\ UNCHANGED << condVars, urlVars, bindVars, applyVars, powVars >>
    /\ dsExists[d]
    /\ dsExists' = [dsExists EXCEPT ![d] = FALSE]
    /\ UNCHANGED << dsStatus, containerDone, serviceAccounts, jobs, faults,
                    cloudName, schemeOK, pc, local, saFound, ret, ops, entryURL, jobSeen >>

ContainerBuilt(d) ==
    /\ UNCHANGED << condVars, urlVars, bindVars, applyVars, powVars >>
    /\ dsExists[d]
    /\ ~containerDone[d]
    /\ containerDone' = [containerDone EXCEPT ![d] = TRUE]
    /\ UNCHANGED << dsExists, dsStatus, serviceAccounts, jobs, faults,
                    cloudName, schemeOK, pc, local, saFound, ret, ops, entryURL, jobSeen >>

JobSucceeds(j) ==
    /\ UNCHANGED << condVars, urlVars, bindVars, applyVars, powVars >>
    /\ j \in jobs
    /\ j.succeeded < MaxSucceeded
    /\ jobs' = (jobs \ {j}) \cup {[j EXCEPT !.succeeded = @ + 1]}
    /\ UNCHANGED << dsExists, dsStatus, containerDone, serviceAccounts, faults,
                    cloudName, schemeOK, pc, local, saFound, ret, ops, entryURL, jobSeen >>

(***************************************************************************)
(* Storage mount resolver: parseBucketURL, mountDataset, mountSavedModel.   *)
(* url.Parse and filepath.Dir are modelled on token sequences in which no   *)
(* two atoms are adjacent, so that the tokens are exactly what the parsers  *)
(* split on.  The alphabet holds no "?", "#", "@", "%", "[" and no control  *)
(* character.                                                              *)
(***************************************************************************)
MaxTokens == 4      \* length of the arbitrary inputs
MaxDirs   == 2      \* directories of a well-formed URL

LetterAtoms == {"gcs", "s3", "my-bucket", "a", "b", "c.json", "not", "url"}
DigitAtoms  == {"80"}
DotAtoms    == {".", ".."}
Atoms       == LetterAtoms \cup DigitAtoms \cup DotAtoms
Delims      == {":", "/", " "}

RECURSIVE IndexFrom(_, _, _)
\* strings.Index from position i: the first position >= i holding tok, 0 if none.
IndexFrom(str, tok, i) ==
    IF i > Len(str) THEN 0
    ELSE IF str[i] = tok THEN i ELSE IndexFrom(str, tok, i + 1)

RECURSIVE LastIndexUpTo(_, _, _)
\* strings.LastIndex up to position i: the last position <= i holding tok, 0 if none.
LastIndexUpTo(str, tok, i) ==
    IF i < 1 THEN 0
    ELSE IF str[i] = tok THEN i ELSE LastIndexUpTo(str, tok, i - 1)

Contains(str, tok) == \E i \in DOMAIN str : str[i] = tok

HasPrefix2(str, t1, t2) == Len(str) >= 2 /\ str[1] = t1 /\ str[2] = t2

RECURSIVE getSchemeFrom(_, _)
\* url.getScheme, scanning from token i.
getSchemeFrom(raw, i) ==
    IF i > Len(raw) THEN [scheme |-> << >>, rest |-> raw, err |-> NoErr]
    ELSE IF raw[i] \in LetterAtoms THEN getSchemeFrom(raw, i + 1)
    ELSE IF raw[i] \in DigitAtoms \cup DotAtoms
         THEN IF i = 1 THEN [scheme |-> << >>, rest |-> raw, err |-> NoErr]
                       ELSE getSchemeFrom(raw, i + 1)
    ELSE IF raw[i] = ":"
         THEN IF i = 1
              THEN [scheme |-> << >>, rest |-> << >>, err |-> "missing protocol scheme"]
              ELSE [scheme |-> SubSeq(raw, 1, i - 1),
                    rest   |-> SubSeq(raw, i + 1, Len(raw)),
                    err    |-> NoErr]
    ELSE [scheme |-> << >>, rest |-> raw, err |-> NoErr]

\* url.parseHost: an optional port of digits after the last colon, no character
\* that a host may not hold.
parseHost(host) ==
    LET i == LastIndexUpTo(host, ":", Len(host))
    IN  IF i # 0 /\ \E k \in (i + 1)..Len(host) : host[k] \notin DigitAtoms
        THEN [host |-> << >>, err |-> "invalid port"]
        ELSE IF Contains(host, " ")
             THEN [host |-> << >>, err |-> "invalid character in host name"]
             ELSE [host |-> host, err |-> NoErr]

\* url.Parse: the Host and Path of the URL, or the error.
urlParse(raw) ==
    LET g == getSchemeFrom(raw, 1)
    IN  IF g.err # NoErr THEN [host |-> << >>, path |-> << >>, err |-> g.err]
        ELSE
        LET rest == g.rest
            slash1 == Len(rest) >= 1 /\ rest[1] = "/"
            seg == IF IndexFrom(rest, "/", 1) = 0 THEN rest
                   ELSE SubSeq(rest, 1, IndexFrom(rest, "/", 1) - 1)
        IN  IF ~slash1 /\ g.scheme # << >>
            THEN [host |-> << >>, path |-> << >>, err |-> NoErr]     \* opaque
            ELSE IF ~slash1 /\ Contains(seg, ":")
            THEN [host |-> << >>, path |-> << >>,
                  err |-> "first path segment in URL cannot contain colon"]
            ELSE IF /\ HasPrefix2(rest, "/", "/")
                    /\ (g.scheme # << >> \/ ~(Len(rest) >= 3 /\ rest[3] = "/"))
            THEN LET after == SubSeq(rest, 3, Len(rest))
                     i     == IndexFrom(after, "/", 1)
                     auth  == IF i = 0 THEN after ELSE SubSeq(after, 1, i - 1)
                     path  == IF i = 0 THEN << >> ELSE SubSeq(after, i, Len(after))
                     h     == parseHost(auth)
                 IN  IF h.err # NoErr
                     THEN [host |-> << >>, path |-> << >>, err |-> h.err]
                     ELSE [host |-> h.host, path |-> path, err |-> NoErr]
            ELSE [host |-> << >>, path |-> rest, err |-> NoErr]

RECURSIVE cleanFrom(_, _, _, _, _)
\* filepath.Clean's loop: out is the stack of elements kept, cur the element being
\* read, from token i on.
cleanFrom(p, i, rooted, out, cur) ==
    LET push == IF cur = << >> \/ cur = << "." >> THEN out
                ELSE IF cur = << ".." >>
                     THEN IF out # << >> /\ out[Len(out)] # << ".." >>
                          THEN SubSeq(out, 1, Len(out) - 1)
                          ELSE IF rooted THEN out ELSE Append(out, cur)
                     ELSE Append(out, cur)
    IN  IF i > Len(p) THEN push
        ELSE IF p[i] = "/" THEN cleanFrom(p, i + 1, rooted, push, << >>)
        ELSE cleanFrom(p, i + 1, rooted, out, Append(cur, p[i]))

RECURSIVE joinElems(_)
joinElems(elems) ==
    IF elems = << >> THEN << >>
    ELSE IF Len(elems) = 1 THEN elems[1]
    ELSE elems[1] \o << "/" >> \o joinElems(Tail(elems))

\* filepath.Clean
filepathClean(p) ==
    IF p = << >> THEN << "." >>
    ELSE LET rooted == p[1] = "/"
             out    == cleanFrom(p, 1, rooted, << >>, << >>)
         IN  IF rooted THEN << "/" >> \o joinElems(out)
             ELSE IF out = << >> THEN << "." >> ELSE joinElems(out)

filepathDirKeepsFile(p) == filepathClean(p)

\* filepath.Dir: Clean of the path up to and with its last separator.
filepathDir(p) == filepathClean(SubSeq(p, 1, LastIndexUpTo(p, "/", Len(p))))

\* strings.TrimPrefix(s, "/")
TrimPrefixSlash(str) ==
    IF Len(str) >= 1 /\ str[1] = "/" THEN SubSeq(str, 2, Len(str)) ELSE str

parseBucketURL(bucketURL) ==
    LET u == urlParse(bucketURL)
    IN  IF u.err # NoErr
        THEN [bucket |-> << >>, subpath |-> << >>, err |-> u.err]
        ELSE [bucket  |-> u.host,
              subpath |-> TrimPrefixSlash(filepathDir(u.path)),
              err     |-> NoErr]

\* mountDataset / mountSavedModel: the slices are passed by value, so the appended
\* volume and mount live in the callee's slices only; the caller's keep their
\* length and elements.
mountBucket(volumes, volumeMounts, url, name, mountPath) ==
    LET r == parseBucketURL(url)
    IN  IF r.err # NoErr
        THEN [err |-> r.err, volumes |-> volumes, volumeMounts |-> volumeMounts,
              callerVolumes |-> volumes, callerVolumeMounts |-> volumeMounts]
        ELSE [err |-> NoErr,
              volumes |-> Append(volumes,
                  [name |-> name, driver |-> "gcsfuse.csi.storage.gke.io",
                   readOnly |-> TRUE, bucketName |-> r.bucket]),
              volumeMounts |-> Append(volumeMounts,
                  [name |-> name, mountPath |-> mountPath, subPath |-> r.subpath,
                   readOnly |-> TRUE]),
              callerVolumes |-> volumes, callerVolumeMounts |-> volumeMounts]

mountDataset(volumes, volumeMounts, url) ==
    mountBucket(volumes, volumeMounts, url, "data", "/data")

mountSavedModel(volumes, volumeMounts, url) ==
    mountBucket(volumes, volumeMounts, url, "saved-model", "/model/saved")

(***************************************************************************)
(* Inputs of the mount resolver.                                           *)
(***************************************************************************)
Alphabet == {":", "/", " ", "gcs", "my-bucket", "a", "80", ".", ".."}

NoAdjacentAtoms(str) ==
    \A i \in 1..(Len(str) - 1) : ~(str[i] \in Atoms /\ str[i + 1] \in Atoms)

ArbitraryURLs ==
    { str \in UNION { [1..n -> Alphabet] : n \in 0..MaxTokens } : NoAdjacentAtoms(str) }

RECURSIVE dirTokens(_)
dirTokens(dirs) ==
    IF dirs = << >> THEN << >> ELSE << "/", Head(dirs) >> \o dirTokens(Tail(dirs))

\* scheme://bucket/dir.../file
MkURL(scheme, bucket, dirs, file) ==
    << scheme, ":", "/", "/", bucket >> \o dirTokens(dirs) \o << "/", file >>

Schemes  == {"gcs", "s3"}
Buckets  == {"my-bucket", "b"}
DirNames == {"a", "b"}
Files    == {"c.json"}
DirLists == UNION { [1..n -> DirNames] : n \in 0..MaxDirs }

WellFormedURLs ==
    { MkURL(sc, bk, dirs, f) : sc \in Schemes, bk \in Buckets, dirs \in DirLists,
                               f \in Files }

NotAURL == << "not", " ", "a", " ", "url" >>
GcsExample == MkURL("gcs", "my-bucket", << "a", "b" >>, "c.json")

URLInputs == ArbitraryURLs \cup WellFormedURLs \cup {NotAURL} \cup
             { ArtifactURL(d) : d \in Datasets }

ExistingVolume ==
    [name |-> "model", driver |-> "gcsfuse.csi.storage.gke.io", readOnly |-> FALSE,
     bucketName |-> << "b" >>]

Unparsed == [bucket |-> << >>, subpath |-> << >>, err |-> "unset"]
NotBuilt == [kind |-> "none", volumes |-> << >>, volumeMounts |-> << >>]

ParseBucketURL ==
    /\ uParsed = Unparsed
    /\ uParsed' = parseBucketURL(uRaw)
    /\ UNCHANGED << uRaw, uVolumes, uMounts, uMountErr, uBuilt >>
    /\ UNCHANGED << recVars, condVars, bindVars, applyVars, powVars >>

MountDataset ==
    /\ uBuilt.kind = "none"
    /\ LET m == mountDataset(uVolumes, uMounts, uRaw)
       IN  /\ uMountErr' = m.err
           /\ uBuilt' = [kind |-> "dataset", volumes |-> m.volumes,
                         volumeMounts |-> m.volumeMounts]
           /\ uVolumes' = m.callerVolumes
           /\ uMounts' = m.callerVolumeMounts
    /\ UNCHANGED << uRaw, uParsed >>
    /\ UNCHANGED << recVars, condVars, bindVars, applyVars, powVars >>

MountSavedModel ==
    /\ uBuilt.kind = "none"
    /\ LET m == mountSavedModel(uVolumes, uMounts, uRaw)
       IN  /\ uMountErr' = m.err
           /\ uBuilt' = [kind |-> "model", volumes |-> m.volumes,
                         volumeMounts |-> m.volumeMounts]
           /\ uVolumes' = m.callerVolumes
           /\ uMounts' = m.callerVolumeMounts
    /\ UNCHANGED << uRaw, uParsed >>
    /\ UNCHANGED << recVars, condVars, bindVars, applyVars, powVars >>

\* C12 (as claimed): the mount reaches the caller.  After mountDataset (resp.
\* mountSavedModel) returned nil for a well-formed URL, the caller's volume list
\* holds a read-only volume "data" (resp. "saved-model") for the parsed bucket
\* and the caller's mount list a read-only mount of it at /data (resp.
\* /model/saved) with the parsed subpath.
C12_MountReachesCaller ==
    ( uBuilt.kind # "none" /\ uMountErr = NoErr /\ uRaw \in WellFormedURLs ) =>
        LET r    == parseBucketURL(uRaw)
            name == IF uBuilt.kind = "dataset" THEN "data" ELSE "saved-model"
            path == IF uBuilt.kind = "dataset" THEN "/data" ELSE "/model/saved"
        IN  /\ \E i \in DOMAIN uVolumes :
                  /\ uVolumes[i].name = name /\ uVolumes[i].readOnly
                  /\ uVolumes[i].bucketName = r.bucket
            /\ \E i \in DOMAIN uMounts :
                  /\ uMounts[i].name = name /\ uMounts[i].readOnly
                  /\ uMounts[i].mountPath = path /\ uMounts[i].subPath = r.subpath

(***************************************************************************)
(* conditionsReady applied to condition lists built by SetStatusCondition. *)
(***************************************************************************)
CondTypes    == {ConditionContainerReady, ConditionDataReady, "Optional"}
CondStatuses == {"True", "False", "Unknown"}
RequiredMaps == UNION { [S -> BOOLEAN] : S \in SUBSET CondTypes }

NotEvaluated == [done |-> FALSE, value |-> FALSE]

\* meta.SetStatusCondition on the object's conditions.
CondSet(t, st) ==
    /\ cConds' = SetStatusCondition(cConds, t, st)
    /\ cConds' # cConds
    /\ cResult' = NotEvaluated
    /\ UNCHANGED cRequired
    /\ UNCHANGED << recVars, urlVars, bindVars, applyVars, powVars >>

\* conditionsReady(obj, requiredConditions)
CondEvaluate ==
    /\ ~cResult.done
    /\ cResult' = [done |-> TRUE, value |-> conditionsReady(cConds, cRequired)]
    /\ UNCHANGED << cConds, cRequired >>
    /\ UNCHANGED << recVars, urlVars, bindVars, applyVars, powVars >>

(***************************************************************************)
(* BindIdentity of the cloud abstraction protocol, on IAM roles with their *)
(* trust policies.                                                         *)
(***************************************************************************)
MaxBindCalls == 2      \* calls per request

Roles          == {"test-role", "other-role"}
Principals     == Roles \cup {"missing-role"}
BindNamespaces == {"test-namespace"}
BindAccounts   == {"test-serviceaccount", "other-serviceaccount"}
BindRequests   == Principals \X BindNamespaces \X BindAccounts

LambdaStatement == [kind |-> "service", service |-> "lambda.amazonaws.com",
                    ns |-> "", sa |-> ""]
TrustStatement(ns, sa) == [kind |-> "oidc", service |-> "", ns |-> ns, sa |-> sa]

NoResponse == [request |-> << >>, resp |-> "nil", err |-> NoErr]

trustAppendAlways(policy, stmt) == Append(policy, stmt)

\* The policy with stmt in it once: added when missing, left alone when present.
trustUpsert(policy, stmt) ==
    IF \E i \in DOMAIN policy : policy[i] = stmt THEN policy
    ELSE Append(policy, stmt)

BindIdentity(p, ns, sa) ==
    /\ bindCalls[<< p, ns, sa >>] < MaxBindCalls
    /\ bindCalls' = [bindCalls EXCEPT ![<< p, ns, sa >>] = @ + 1]
    /\ IF p \in DOMAIN trustPolicy
       THEN /\ trustPolicy' = [trustPolicy EXCEPT
                                 ![p] = trustUpsert(@, TrustStatement(ns, sa))]
            /\ bindResp' = [request |-> << p, ns, sa >>, resp |-> "ack", err |-> NoErr]
       ELSE /\ bindResp' = [request |-> << p, ns, sa >>, resp |-> "nil",
                            err |-> "NoSuchEntity"]
            /\ UNCHANGED trustPolicy
    /\ UNCHANGED << recVars, condVars, urlVars, applyVars, powVars >>

(***************************************************************************)
(* The parts of the state a specification does not exercise rest at these  *)
(* values.                                                                 *)
(***************************************************************************)
RecIdle ==
    /\ dsExists = [d \in Datasets |-> TRUE]
    /\ dsStatus = [d \in Datasets |-> EmptyStatus]
    /\ containerDone = [d \in Datasets |-> FALSE]
    /\ serviceAccounts = {}
    /\ jobs = {}
    /\ faults = 0
    /\ pc = [d \in Datasets |-> "idle"]
    /\ local = [d \in Datasets |-> EmptyStatus]
    /\ saFound = [d \in Datasets |-> {}]
    /\ ret = [d \in Datasets |-> NoRet]
    /\ ops = [d \in Datasets |-> {}]
    /\ entryURL = [d \in Datasets |-> << >>]
    /\ jobSeen = [d \in Datasets |-> -1]

CondIdle == cConds = << >> /\ cRequired = << >> /\ cResult = NotEvaluated

UrlIdle ==
    /\ uRaw = << >> /\ uParsed = Unparsed /\ uVolumes = << >> /\ uMounts = << >>
    /\ uMountErr = "unset" /\ uBuilt = NotBuilt

RecFixed == RecIdle /\ cloudName = "gcp" /\ schemeOK = TRUE

BindIdle == trustPolicy = << >> /\ bindCalls = << >> /\ bindResp = NoResponse

NoModel == [started |-> FALSE, Namespace |-> "", ObjectNamespace |-> ""]

ApplyIdle ==
    /\ aFlagNs = "" /\ aKubeNs = "" /\ aManifestNs = "" /\ aPc = "idle"
    /\ aNamespace = "" /\ aObjNs = "" /\ aErr = NoErr /\ aModel = NoModel

PowIdle == pN = 0 /\ pK = 0 /\ pPc = "idle"

(***************************************************************************)
(* Spec: the Dataset reconciler against the API server, one in-flight pass *)
(* per Dataset, passes of distinct Datasets interleaved.                   *)
(***************************************************************************)
Init ==
    /\ RecIdle
    /\ cloudName \in Clouds
    /\ schemeOK \in BOOLEAN
    /\ CondIdle /\ UrlIdle /\ BindIdle /\ ApplyIdle /\ PowIdle

Next ==
    \/ \E d \in Datasets : Trigger(d)
    \/ \E d \in Datasets : ReconcileGet(d)
    \/ \E d \in Datasets : ReconcileContainer(d)
    \/ \E d \in Datasets : ReconcileDataEnter(d)
    \/ \E d \in Datasets : ServiceAccountGet(d)
    \/ \E d \in Datasets : ServiceAccountWrite(d)
    \/ \E d \in Datasets : ReconcileLoadJob(d)
    \/ \E d \in Datasets : ReconcileJobCreate(d)
    \/ \E d \in Datasets : ReconcileJobGet(d)
    \/ \E d \in Datasets : ReconcileReadiness(d)
    \/ \E d \in Datasets : DeleteDataset(d)
    \/ \E d \in Datasets : ContainerBuilt(d)
    \/ \E j \in jobs : JobSucceeds(j)

Spec == Init /\ [][Next]_vars

(***************************************************************************)
(* Properties of the reconciler (specification Spec).                      *)
(***************************************************************************)
DataOps ==
    { "data:sa_get", "data:sa_create", "data:sa_update", "data:load_job",
      "data:job_create", "data:job_exists", "data:job_get" }

JobsNamed(J, d) == { j \in J : j.name = JobName(d) /\ j.ns = Namespace }

LoaderServiceAccounts ==
    { s \in serviceAccounts : s.name = dataLoaderServiceAccountName /\ s.ns = Namespace }

\* C1: reconcileJob is idempotent.  In every reachable job collection, for every
\* owner, two uninterrupted calls with the same job (no failure of the API calls,
\* no job-status change in between) leave exactly one job of that name, the first
\* call's collection is what the second leaves, the second call reports no error
\* although its Create answers AlreadyExists, and both return the same result;
\* and a pass whose Create answered AlreadyExists does not return that error.
C1_ReconcileJobIdempotent ==
    \A d \in Datasets :
        LET job == loadJob(d, << >>, cloudName, schemeOK).job
            r1  == reconcileJob(jobs, job, FALSE, FALSE)
            r2  == reconcileJob(r1.jobs, job, FALSE, FALSE)
        IN  /\ Cardinality(JobsNamed(r2.jobs, d)) = 1
            /\ r2.jobs = r1.jobs
            /\ ClientCreateJob(r1.jobs, job, FALSE).err = "AlreadyExists"
            /\ r2.err = NoErr
            /\ r1.success = r2.success /\ r1.requeue = r2.requeue /\ r1.err = r2.err
            /\ Cardinality(JobsNamed(jobs, d)) <= 1
            /\ ("data:job_exists" \in ops[d] /\ pc[d] = "done")
                  => ret[d].err # "AlreadyExists"

\* A second pass for d found the job of the first and ended without error.
C1_Witness ==
    \E d \in Datasets :
        /\ pc[d] = "done" /\ "data:job_exists" \in ops[d]
        /\ ret[d].stage = "data" /\ ret[d].err = NoErr
        /\ Cardinality(JobsNamed(jobs, d)) = 1

\* C3: URL short-circuit.  A pass that enters reconcileData with a non-empty
\* dataset.Status.URL leaves it with success (the pass goes on to the readiness
\* stage) and has performed none of reconcileData's API operations: no service
\* account read, create or update, no job construction, create or read.
C3_UrlShortCircuit ==
    \A d \in Datasets :
        entryURL[d] # << >> =>
            /\ ops[d] \cap DataOps = {}
            /\ \/ pc[d] = "readiness"
               \/ pc[d] = "done" /\ ret[d].stage = "readiness"

C3_Witness ==
    \E d \in Datasets :
        /\ entryURL[d] # << >> /\ pc[d] = "done" /\ ret[d].stage = "readiness"
        /\ JobsNamed(jobs, d) # {}

\* C4: first pass of the data stage.  On GCP with a usable scheme, a pass that
\* entered reconcileData with an empty URL and returned no error has the
\* data-loader service account (annotated) and a job named <name>-data-loader in
\* place, created by this pass when it found none: and when the job this pass
\* created shows no success on re-read, Reconcile returns the incomplete result
\* of the data stage: success false, error nil, no requeue requested.  The only
\* errors the data stage returns there are a failed API call and the Create of a
\* service account that a pass of another Dataset created first.
C4_FirstPassCreatesAndIsIncomplete ==
    \A d \in Datasets :
        /\ ( pc[d] = "done" /\ ret[d].stage = "data" /\ cloudName = "gcp" )
           => /\ ret[d].err \in {NoErr, "ServerError", "AlreadyExists"}
              /\ ret[d].err = "AlreadyExists" =>
                    /\ saFound[d] = {} /\ LoaderServiceAccounts # {}
                    /\ "data:load_job" \notin ops[d]
        /\ ( /\ pc[d] = "done" /\ "data:sa_get" \in ops[d] /\ ret[d].err = NoErr
             /\ cloudName = "gcp" /\ schemeOK )
           => /\ \E s \in LoaderServiceAccounts :
                    s.annotations = << << AnnotationKey,
                        GCPServiceAccountAnnotation(dataLoaderServiceAccountName) >> >>
              /\ saFound[d] = {} => "data:sa_create" \in ops[d]
              /\ Cardinality(JobsNamed(jobs, d)) = 1
              /\ "data:job_create" \in ops[d] \/ "data:job_exists" \in ops[d]
              /\ "data:job_get" \in ops[d]
        /\ ( pc[d] = "done" /\ "data:job_create" \in ops[d] /\ jobSeen[d] = 0 )
           => /\ ret[d] = [stage |-> "data", success |-> FALSE, requeue |-> FALSE,
                           err |-> NoErr]
              /\ \A j \in JobsNamed(jobs, d) : j.owner = UID(d)
              /\ LoaderServiceAccounts # {}

C4_Witness ==
    \E d \in Datasets :
        /\ pc[d] = "done"
        /\ {"data:sa_create", "data:job_create", "data:job_get"} \subseteq ops[d]
        /\ jobSeen[d] = 0
        /\ ret[d].stage = "data" /\ ~ret[d].success /\ ret[d].err = NoErr
        /\ dsStatus[d].url = << >>

\* C5 (as claimed): the pass that re-reads the loader job with at least one
\* success, with ContainerReady true, ends with DataReady true and Ready true in
\* the persisted status.
C5_ReadyAfterJobSuccess ==
    \A d \in Datasets :
        ( /\ pc[d] = "done" /\ ret[d].stage = "readiness" /\ ret[d].err = NoErr
          /\ jobSeen[d] >= 1
          /\ actualConditions(dsStatus[d].conds, ConditionContainerReady) )
        => /\ actualConditions(dsStatus[d].conds, ConditionDataReady)
           /\ dsStatus[d].ready

\* C6: the artifact URL is persisted only after the loader job succeeded, and a
\* persisted URL never changes: whenever the persisted status.url of d is
\* non-empty it is the URL loadJob computes for d and a job named
\* <d>-data-loader with at least one recorded success exists; and no step changes
\* a non-empty persisted status.url.
C6_UrlOnlyAfterSuccessAndImmutable ==
    /\ [](\A d \in Datasets :
            dsStatus[d].url # << >> =>
               /\ dsStatus[d].url = ArtifactURL(d)
               /\ \E j \in JobsNamed(jobs, d) : j.succeeded >= 1)
    /\ [][\A d \in Datasets :
            dsStatus[d].url # << >> => dsStatus'[d].url = dsStatus[d].url]_vars

\* d's URL is persisted and a later pass of d has written the status again.
C6_Witness ==
    \E d \in Datasets :
        /\ dsStatus[d].url = ArtifactURL(d)
        /\ entryURL[d] = ArtifactURL(d)
        /\ "readiness:status_update" \in ops[d]

\* C10: not-found is ignored.  A pass whose fetch answered NotFound is over, has
\* returned the empty result with a nil error, and has performed no other
\* operation: no stage ran, no service account or job was read or written.
C10_NotFoundIgnored ==
    \A d \in Datasets :
        "get:notfound" \in ops[d] =>
            /\ pc[d] = "done"
            /\ ret[d] = [stage |-> "get", success |-> FALSE, requeue |-> FALSE,
                         err |-> NoErr]
            /\ ops[d] = {"get:notfound"}

C10_Witness ==
    \E d \in Datasets :
        /\ "get:notfound" \in ops[d] /\ ~dsExists[d] /\ pc[d] = "done"
        /\ JobsNamed(jobs, d) # {}

\* C11: a job-construction error is not retried.  When loadJob fails (the owner
\* reference cannot be set), the pass is over right after it: reconcileData's
\* result is success false, no requeue, nil error, which is what Reconcile
\* returns; the pass has neither created nor read a job and has not run the
\* readiness stage; and no job of that Dataset exists, since no pass gets
\* further.
C11_LoadJobErrorNotRetried ==
    \A d \in Datasets :
        /\ ( "data:load_job" \in ops[d] /\ ~schemeOK )
           => /\ pc[d] = "done"
              /\ ret[d] = [stage |-> "data", success |-> FALSE, requeue |-> FALSE,
                           err |-> NoErr]
              /\ ops[d] \cap { "data:job_create", "data:job_exists", "data:job_get",
                               "readiness:status_update" } = {}
        /\ ~schemeOK => JobsNamed(jobs, d) = {} /\ dsStatus[d].url = << >>

\* a second pass of d has failed in loadJob, the service account being there
\* from the first.
C11_Witness ==
    \E d \in Datasets :
        /\ ~schemeOK /\ cloudName = "gcp"
        /\ pc[d] = "done" /\ "data:load_job" \in ops[d]
        /\ saFound[d] # {}
        /\ local[d].url = ArtifactURL(d)

DataSteps == {"data", "sa_get", "sa_write", "loadjob", "job_create", "job_get"}

\* C13: the stages of a pass run in the order container, data, readiness, each
\* gated on the one before.  A pass that is in the data stage, or has read or
\* written a service account or a job, has completed the container stage (the
\* image is built and the pass has recorded ContainerReady); a pass that is at
\* the readiness stage, or has evaluated readiness, has moreover completed the
\* data stage: it entered reconcileData with a URL, or it re-read its loader
\* job with at least one success.  A pass that returned from an earlier stage
\* has done nothing of a later one.
C13_StagesOrderedAndGated ==
    \A d \in Datasets :
        LET containerComplete ==
                containerDone[d] /\ "container:status_update" \in ops[d]
            dataComplete == entryURL[d] # << >> \/ jobSeen[d] >= 1
        IN  /\ ( pc[d] \in DataSteps \/ ops[d] \cap DataOps # {} )
                   => containerComplete
            /\ ( pc[d] = "readiness" \/ "readiness:status_update" \in ops[d] )
                   => containerComplete /\ dataComplete
            /\ ( pc[d] = "done" /\ ret[d].stage \in {"get", "container"} )
                   => /\ ops[d] \cap DataOps = {}
                      /\ "readiness:status_update" \notin ops[d]
            /\ ( pc[d] = "done" /\ ret[d].stage = "data" )
                   => "readiness:status_update" \notin ops[d]

\* one pass has gone through the three stages.
C13_Witness ==
    \E d \in Datasets :
        /\ pc[d] = "done" /\ ret[d].stage = "readiness"
        /\ { "container:status_update", "data:sa_get", "data:job_get",
             "readiness:status_update" } \subseteq ops[d]
        /\ jobSeen[d] >= 1

\* C15: the completion threshold of reconcileJob.  Run on the jobs there are,
\* with the API calls answering, reconcileJob returns no error and no requeue,
\* and success exactly when the job of that name shows at least one success.
\* In a pass whose re-read was answered: with at least one success the pass
\* goes on to the readiness stage; with none it is over with the incomplete
\* result, a nil error and no requeue.
C15_CompletionThreshold ==
    \A d \in Datasets :
        /\ LET job == loadJob(d, << >>, cloudName, schemeOK).job
               r   == reconcileJob(jobs, job, FALSE, FALSE)
           IN  /\ r.err = NoErr /\ ~r.requeue
               /\ r.success <=> \E j \in JobsNamed(r.jobs, d) : j.succeeded >= 1
        /\ ( "data:job_get" \in ops[d] /\ jobSeen[d] >= 1 )
             => \/ pc[d] = "readiness"
                \/ pc[d] = "done" /\ ret[d].stage = "readiness"
        /\ ( "data:job_get" \in ops[d] /\ jobSeen[d] \in {0} )
             => /\ pc[d] = "done"
                /\ ret[d] = [stage |-> "data", success |-> FALSE, requeue |-> FALSE,
                             err |-> NoErr]

\* one Dataset's pass has re-read its job without a success, the other's with
\* one.
C15_Witness ==
    \E d, e \in Datasets :
        /\ "data:job_get" \in ops[d] /\ jobSeen[d] = 0 /\ pc[d] = "done"
        /\ "data:job_get" \in ops[e] /\ jobSeen[e] >= 1 /\ pc[e] = "done"

\* C16: errors of reconcileJob propagate.  On the jobs there are, a failed
\* Create makes reconcileJob return that error with success false and no job
\* added, a failed re-read likewise, and so does the re-read of a job that is
\* not there (NotFound).  In a pass: when the Create failed (the job was built
\* and the pass is over without a Create or a re-read recorded) or the re-read
\* failed, Reconcile returns the data stage's result with success false and
\* the API error itself; the pass has not evaluated readiness and the
\* persisted status has no DataReady condition and no URL from it.
C16_JobErrorsPropagate ==
    \A d \in Datasets :
        LET job == loadJob(d, << >>, cloudName, schemeOK).job
            createFailed ==
                /\ pc[d] = "done" /\ "data:load_job" \in ops[d] /\ schemeOK
                /\ ops[d] \cap {"data:job_create", "data:job_exists", "data:job_get"} = {}
            getFailed == "data:job_get" \in ops[d] /\ jobSeen[d] = -1
        IN  /\ LET r == reconcileJob(jobs, job, TRUE, FALSE)
                IN  r.err = "ServerError" /\ ~r.success /\ r.jobs = jobs
            /\ LET r == reconcileJob(jobs, job, FALSE, TRUE)
                IN  r.err = "ServerError" /\ ~r.success
            /\ LET g == reconcileJobGet(jobs \ JobsNamed(jobs, d), job, FALSE)
                IN  g.err = "NotFound" /\ ~g.success
            /\ ( createFailed \/ getFailed )
                  => /\ pc[d] = "done"
                     /\ ret[d] = [stage |-> "data", success |-> FALSE,
                                  requeue |-> FALSE, err |-> "ServerError"]
                     /\ "readiness:status_update" \notin ops[d]
                     /\ \A i \in DOMAIN dsStatus[d].conds :
                            dsStatus[d].conds[i].type # ConditionDataReady
                     /\ entryURL[d] = << >> /\ dsStatus[d].url = << >>

\* a pass whose re-read failed although its job has a success.
C16_Witness ==
    \E d \in Datasets :
        /\ pc[d] = "done" /\ "data:job_get" \in ops[d] /\ jobSeen[d] = -1
        /\ ret[d].err = "ServerError"
        /\ \E j \in JobsNamed(jobs, d) : j.succeeded >= 1

\* C18: the shared service account and the per-Dataset jobs under interleaved
\* passes.  At every point the namespace holds at most one service account
\* "data-loader", and it carries exactly the annotation iam.gke.io/gcp-service-account
\* = substratus-data-loader@<project>.iam.gserviceaccount.com; every Dataset has
\* at most one job <name>-data-loader, owned by it, and exactly one once a pass
\* of it got past the Create; on a cloud other than GCP a pass that reaches the
\* service-account step returns its error, and there is no service account and
\* no job.
C18_SharedAccountOwnJobs ==
    /\ Cardinality(LoaderServiceAccounts) <= 1
    /\ serviceAccounts = LoaderServiceAccounts
    /\ \A s \in LoaderServiceAccounts :
          s.annotations =
             << << AnnotationKey,
                   << "substratus-", "data-loader", "@", ProjectID,
                      ".iam.gserviceaccount.com" >> >> >>
    /\ \A d \in Datasets :
          /\ Cardinality(JobsNamed(jobs, d)) <= 1
          /\ \A j \in JobsNamed(jobs, d) :
                j.owner = UID(d) /\ j.sa = dataLoaderServiceAccountName
          /\ ( ops[d] \cap {"data:job_create", "data:job_exists"} # {} )
                => Cardinality(JobsNamed(jobs, d)) = 1 /\ LoaderServiceAccounts # {}
    /\ jobs = UNION { JobsNamed(jobs, d) : d \in Datasets }
    /\ cloudName # "gcp" =>
          /\ serviceAccounts = {} /\ jobs = {}
          /\ \A d \in Datasets :
                "data:sa_get" \in ops[d] =>
                   \/ pc[d] = "sa_write"
                   \/ /\ pc[d] = "done"
                      /\ ret[d] = [stage |-> "data", success |-> FALSE,
                                   requeue |-> FALSE, err |-> "UnsupportedCloud"]

\* two passes interleaved: both found no service account, d's Create came
\* second and failed, e's pass went on and created e's job.
C18_Witness ==
    \E d, e \in Datasets :
        /\ d # e
        /\ pc[d] = "done" /\ ret[d].err = "AlreadyExists" /\ saFound[d] = {}
        /\ "data:sa_create" \in ops[e] /\ "data:job_create" \in ops[e]
        /\ Cardinality(LoaderServiceAccounts) = 1
        /\ Cardinality(JobsNamed(jobs, e)) = 1

\* C19: writer-side storage is scoped by UID.  Every mount subpath of a loader
\* job begins with the UID of the Dataset the job is named after and owned by;
\* a URL a pass holds or has persisted for d is
\* gcs://<project>-substratus-datasets/<UID of d>/data/<filename of d>, which
\* parseBucketURL resolves to that bucket and a subpath beginning with the UID;
\* and two Datasets, whose filenames are equal, share no mount subpath and no
\* URL.
C19_StorageScopedByUID ==
    /\ \A d \in Datasets :
          /\ \A j \in JobsNamed(jobs, d) :
                /\ j.subPaths # {}
                /\ \A sp \in j.subPaths : sp[1] = UID(d) /\ sp[1] = j.owner
          /\ \A u \in {local[d].url, dsStatus[d].url} \ {<< >>} :
                /\ u = << "gcs", ":", "/", "/", "proj-substratus-datasets", "/",
                          UID(d), "/", "data", "/", Filename(d) >>
                /\ parseBucketURL(u).err = NoErr
                /\ parseBucketURL(u).bucket = << "proj-substratus-datasets" >>
                /\ parseBucketURL(u).subpath = << UID(d), "/", "data" >>
    /\ \A d, e \in Datasets :
          d # e =>
            /\ Filename(d) = Filename(e)
            /\ \A j \in JobsNamed(jobs, d), k \in JobsNamed(jobs, e) :
                  j.subPaths \cap k.subPaths = {}
            /\ \A u \in {local[d].url, dsStatus[d].url} \ {<< >>} :
                  u \notin {local[e].url, dsStatus[e].url}

\* both Datasets have their loader job and their URL persisted.
C19_Witness ==
    \A d \in Datasets :
        /\ JobsNamed(jobs, d) # {}
        /\ dsStatus[d].url # << >>

\* d's pass is over, incomplete in the data stage (the job re-read with fewer
\* than one success, or the stage's own return) or with an error.
EndedShort(d) ==
    /\ pc[d] = "done"
    /\ \/ "data:job_get" \in ops[d] /\ jobSeen[d] < 1
       \/ ret[d].stage = "data"
       \/ ret[d].err # NoErr

\* The data stage and the error returns write nothing to the status: url and
\* ready are those the pass fetched, the conditions those the pass holds since
\* the container stage.
DataStageWroteNothing(d) ==
    /\ "readiness:status_update" \notin ops[d]
    /\ ret[d].stage = "data" => entryURL[d] = << >>
    /\ "container:status_update" \in ops[d] =>
          /\ dsStatus[d].url = entryURL[d]
          /\ dsStatus[d].ready = local[d].ready
          /\ dsStatus[d].conds = local[d].conds
    /\ ( "get:found" \in ops[d] /\ "container:status_update" \notin ops[d] )
          => dsStatus[d] = local[d]

\* The URL loadJob left in the pass's copy of the Dataset is seen by no other
\* pass: a pass starts from the persisted status, and a URL held in memory but
\* not persisted was computed by loadJob in this very pass.
UrlInMemoryOnly(d) ==
    /\ pc[d] = "container" => local[d] = dsStatus[d]
    /\ ( local[d].url # << >> /\ dsStatus[d].url = << >> )
          => "data:load_job" \in ops[d] /\ entryURL[d] = << >>

Crash ==
    /\ UNCHANGED << condVars, urlVars, bindVars, applyVars, powVars >>
    /\ \E d \in Datasets : pc[d] \notin {"idle", "done"}
    /\ pc' = [d \in Datasets |-> "idle"]
    /\ local' = [d \in Datasets |-> EmptyStatus]
    /\ saFound' = [d \in Datasets |-> {}]
    /\ ret' = [d \in Datasets |-> NoRet]
    /\ ops' = [d \in Datasets |-> {}]
    /\ entryURL' = [d \in Datasets |-> << >>]
    /\ jobSeen' = [d \in Datasets |-> -1]
    /\ UNCHANGED << dsExists, dsStatus, containerDone, serviceAccounts, jobs, faults,
                    cloudName, schemeOK >>

NextCrash ==
    \/ \E d \in Datasets : Trigger(d)
    \/ \E d \in Datasets : ReconcileGet(d)
    \/ \E d \in Datasets : ReconcileContainer(d)
    \/ \E d \in Datasets : ReconcileDataEnter(d)
    \/ \E d \in Datasets : ServiceAccountGet(d)
    \/ \E d \in Datasets : ServiceAccountWrite(d)
    \/ \E d \in Datasets : ReconcileLoadJob(d)
    \/ \E d \in Datasets : ReconcileJobCreate(d)
    \/ \E d \in Datasets : ReconcileJobGet(d)
    \/ \E d \in Datasets : ReconcileReadiness(d)
    \/ \E d \in Datasets : DeleteDataset(d)
    \/ \E d \in Datasets : ContainerBuilt(d)
    \/ \E j \in jobs : JobSucceeds(j)
    \/ Crash

SpecCrash == Init /\ [][NextCrash]_vars

\* What the API server holds that a pass of d reads or writes.
Persisted(d) ==
    [ exists |-> dsExists[d], built |-> containerDone[d], status |-> dsStatus[d],
      sas |-> serviceAccounts, jobs |-> jobs ]

\* Reconcile for d run from its first line to its return on the persisted state
\* P, every API call answering: the persisted state it leaves.
freshPass(d, P) ==
    IF ~P.exists \/ ~P.built THEN P
    ELSE
    LET st1 == [P.status EXCEPT
                  !.conds = SetStatusCondition(@, ConditionContainerReady, "True")]
        rdy == conditionsReady(st1.conds, DatasetRequired)
        P1  == [P EXCEPT !.status = st1]
    IN  IF urlAlreadySet(st1.url)
        THEN [P EXCEPT !.status = [st1 EXCEPT !.ready = rdy]]
        ELSE
        LET found == { s \in P.sas :
                         s.name = dataLoaderServiceAccountName /\ s.ns = Namespace }
            base  == IF found = {} THEN NewServiceAccount
                     ELSE CHOOSE s \in found : TRUE
            m     == authNServiceAccount(base, cloudName)
        IN  IF m.err # NoErr THEN P1
            ELSE
            LET P2 == [P1 EXCEPT !.sas = (@ \ found) \cup {m.sa}]
                lj == loadJob(d, st1.url, cloudName, schemeOK)
            IN  IF lj.err # NoErr THEN P2
                ELSE
                LET r  == reconcileJob(P.jobs, lj.job, FALSE, FALSE)
                    P3 == [P2 EXCEPT !.jobs = r.jobs]
                IN  IF ~r.success THEN P3
                    ELSE [P3 EXCEPT !.status = [st1 EXCEPT !.url = lj.url,
                                                           !.ready = rdy]]

ForeignOwners == {"none", "uid-earlier"}

\* Somebody else creates a job under the name of d's loader job.
ForeignJobCreated(d) ==
    /\ UNCHANGED << condVars, urlVars, bindVars, applyVars, powVars >>
    /\ JobsNamed(jobs, d) = {}
    /\ \E o \in ForeignOwners :
         jobs' = jobs \cup
                   {[loadJob(d, << >>, cloudName, TRUE).job EXCEPT !.owner = o,
                                                                  !.subPaths = {}]}
    /\ UNCHANGED << dsExists, dsStatus, containerDone, serviceAccounts, faults,
                    cloudName, schemeOK, pc, local, saFound, ret, ops, entryURL, jobSeen >>

NextShared ==
    \/ \E d \in Datasets : Trigger(d)
    \/ \E d \in Datasets : ReconcileGet(d)
    \/ \E d \in Datasets : ReconcileContainer(d)
    \/ \E d \in Datasets : ReconcileDataEnter(d)
    \/ \E d \in Datasets : ServiceAccountGet(d)
    \/ \E d \in Datasets : ServiceAccountWrite(d)
    \/ \E d \in Datasets : ReconcileLoadJob(d)
    \/ \E d \in Datasets : ReconcileJobCreate(d)
    \/ \E d \in Datasets : ReconcileJobGet(d)
    \/ \E d \in Datasets : ReconcileReadiness(d)
    \/ \E d \in Datasets : DeleteDataset(d)
    \/ \E d \in Datasets : ContainerBuilt(d)
    \/ \E j \in jobs : JobSucceeds(j)
    \/ \E d \in Datasets : ForeignJobCreated(d)

SpecShared == Init /\ [][NextShared]_vars

\* C17 (as claimed): jobs are exclusively owned.  Whenever a pass of d took the
\* data stage as complete because the job it re-read showed a success, the
\* job of the name <d>-data-loader in d's namespace has d as its controller
\* owner.
C17_OnlyOwnJobCompletes ==
    \A d \in Datasets :
        ( /\ "data:job_get" \in ops[d] /\ jobSeen[d] >= 1
          /\ pc[d] = "readiness" \/ (pc[d] = "done" /\ ret[d].stage = "readiness") )
        => \A j \in JobsNamed(jobs, d) : j.owner = UID(d)

(***************************************************************************)
(* SpecURL: the mount resolver applied to every input.                     *)
(***************************************************************************)
InitURL ==
    /\ RecFixed /\ CondIdle /\ BindIdle /\ ApplyIdle /\ PowIdle
    /\ uRaw \in URLInputs
    /\ uParsed = Unparsed
    /\ uVolumes \in { << >>, << ExistingVolume >> }
    /\ uMounts = << >>
    /\ uMountErr = "unset"
    /\ uBuilt = NotBuilt

NextURL == ParseBucketURL \/ MountDataset \/ MountSavedModel

SpecURL == InitURL /\ [][NextURL]_vars

\* C7: parseBucketURL on scheme://bucket/dir.../file.  For every scheme, bucket,
\* list of directory names and file name, the result for that URL is the bucket
\* (the host), the directories joined by "/" with no leading slash, and no error;
\* "gcs://my-bucket/a/b/c.json" gives "my-bucket" and "a/b".
C7_ParseBucketURL ==
    /\ uParsed # Unparsed =>
         \A sc \in Schemes, bk \in Buckets, dirs \in DirLists, f \in Files :
             uRaw = MkURL(sc, bk, dirs, f) =>
                 uParsed = [bucket |-> << bk >>, subpath |-> joinElems([i \in DOMAIN dirs |-> << dirs[i] >>]),
                            err |-> NoErr]
    /\ (uParsed # Unparsed /\ uRaw = GcsExample) =>
         uParsed = [bucket |-> << "my-bucket" >>, subpath |-> << "a", "/", "b" >>,
                    err |-> NoErr]

C7_Witness ==
    /\ uRaw = GcsExample
    /\ uParsed = [bucket |-> << "my-bucket" >>, subpath |-> << "a", "/", "b" >>,
                  err |-> NoErr]

HasSchemeAndHost(raw) ==
    /\ Len(raw) >= 5
    /\ raw[1] \in LetterAtoms /\ raw[2] = ":" /\ raw[3] = "/" /\ raw[4] = "/"
    /\ raw[5] \in Atoms

\* C8 (as claimed): the mount resolver answers a URL without scheme and bucket
\* host, "not a url" among them, with an error, and builds no volume whose bucket
\* is empty.
C8_MalformedIsError ==
    (uBuilt.kind # "none" /\ ~HasSchemeAndHost(uRaw)) =>
        /\ uMountErr # NoErr
        /\ \A i \in DOMAIN uBuilt.volumes : uBuilt.volumes[i].bucketName # << >>

(***************************************************************************)
(* SpecCond: conditionsReady on every condition list and required map.     *)
(***************************************************************************)
InitCond ==
    /\ RecFixed /\ UrlIdle /\ BindIdle /\ ApplyIdle /\ PowIdle
    /\ cConds = << >>
    /\ cRequired \in RequiredMaps
    /\ cResult = NotEvaluated

NextCond ==
    \/ \E t \in CondTypes, st \in CondStatuses : CondSet(t, st)
    \/ CondEvaluate

SpecCond == InitCond /\ [][NextCond]_vars

MarkedRequired(t) == t \in DOMAIN cRequired /\ cRequired[t]

\* C2: conditionsReady is true exactly when every type marked required has a
\* condition with status True on the object (an absent one counts as false), and
\* setting a condition of a type that is not required, to any status, leaves the
\* result as it is.
C2_ConditionsReady ==
    cResult.done =>
        /\ cResult.value =
             (\A t \in CondTypes :
                 MarkedRequired(t) =>
                     \E i \in DOMAIN cConds :
                         cConds[i].type = t /\ cConds[i].status = "True")
        /\ \A t \in CondTypes, st \in CondStatuses :
             ~MarkedRequired(t) =>
                 conditionsReady(SetStatusCondition(cConds, t, st), cRequired)
                     = cResult.value

\* Ready although a condition mapped to false in the required map is False.
C2_Witness ==
    /\ cResult.done /\ cResult.value
    /\ \E t \in CondTypes : MarkedRequired(t)
    /\ \E t \in DOMAIN cRequired :
          /\ ~cRequired[t]
          /\ \E i \in DOMAIN cConds : cConds[i].type = t /\ cConds[i].status = "False"

(***************************************************************************)
(* SpecBind: BindIdentity calls on roles created with the lambda statement.*)
(***************************************************************************)
InitBind ==
    /\ RecFixed /\ CondIdle /\ UrlIdle /\ ApplyIdle /\ PowIdle
    /\ trustPolicy = [r \in Roles |-> << LambdaStatement >>]
    /\ bindCalls = [q \in BindRequests |-> 0]
    /\ bindResp = NoResponse

NextBind ==
    \E p \in Principals, ns \in BindNamespaces, sa \in BindAccounts :
        BindIdentity(p, ns, sa)

SpecBind == InitBind /\ [][NextBind]_vars

StatementsFor(p, ns, sa) ==
    { i \in DOMAIN trustPolicy[p] : trustPolicy[p][i] = TrustStatement(ns, sa) }

\* C9: BindIdentity converges and preserves.  A role called with a request one or
\* more times holds exactly one trust statement for the request's (namespace,
\* service account), and never more than one for any pair; each call on an
\* existing role answers with a response and no error; and no call removes a
\* statement: the lambda.amazonaws.com statement and every statement present
\* before a call are present after it.
C9_BindConvergesAndPreserves ==
    /\ [](/\ \A p \in Roles, ns \in BindNamespaces, sa \in BindAccounts :
               /\ Cardinality(StatementsFor(p, ns, sa)) <= 1
               /\ bindCalls[<< p, ns, sa >>] >= 1 =>
                     Cardinality(StatementsFor(p, ns, sa)) = 1
          /\ \A p \in Roles : \E i \in DOMAIN trustPolicy[p] :
               trustPolicy[p][i] = LambdaStatement
          /\ (bindResp # NoResponse /\ bindResp.request[1] \in Roles) =>
               bindResp.resp # "nil" /\ bindResp.err = NoErr)
    /\ [][\A p \in Roles : \A i \in DOMAIN trustPolicy[p] :
            \E j \in DOMAIN trustPolicy'[p] : trustPolicy'[p][j] = trustPolicy[p][i]]_vars

\* The same request was made twice of a role that also holds another pair's
\* statement.
C9_Witness ==
    \E p \in Roles, ns \in BindNamespaces, sa \in BindAccounts :
        /\ bindCalls[<< p, ns, sa >>] = 2
        /\ bindResp.request = << p, ns, sa >> /\ bindResp.err = NoErr
        /\ Cardinality(StatementsFor(p, ns, sa)) = 1
        /\ Len(trustPolicy[p]) = 3

(***************************************************************************)
(* SpecApply: the apply command's run, for every manifest namespace,       *)
(* namespace flag and kubeconfig namespace; "" is the unset value.         *)
(***************************************************************************)
NsValues == {"", "default", "a", "b"}

\* run: the local variable namespace.
resolveNamespace(flag, kubeconfigNamespace) ==
    IF flag # "" THEN flag
    ELSE IF kubeconfigNamespace # "" THEN kubeconfigNamespace
    ELSE "default"

\* run: the namespace of obj after the check of the manifest's namespace, or the
\* error on a conflicting flag.
objectNamespace(objNs, namespace, flag) ==
    IF objNs = "" THEN [ns |-> namespace, err |-> NoErr]
    ELSE IF flag # "" /\ flag # objNs
         THEN [ns |-> objNs, err |-> "namespace mismatch"]
         ELSE [ns |-> objNs, err |-> NoErr]

ApplyExit(err) == aErr' = err /\ aPc' = "exit"

\* utils.BuildConfigFromFlags
ApplyBuildConfig ==
    /\ aPc = "config"
    /\ \E fail \in BOOLEAN :
         IF fail THEN ApplyExit("rest config")
                 ELSE aPc' = "namespace" /\ UNCHANGED aErr
    /\ UNCHANGED << aFlagNs, aKubeNs, aManifestNs, aNamespace, aObjNs, aModel >>
    /\ UNCHANGED << recVars, condVars, urlVars, bindVars, powVars >>

ApplyResolveNamespace ==
    /\ aPc = "namespace"
    /\ aNamespace' = resolveNamespace(aFlagNs, aKubeNs)
    /\ aPc' = "clientset"
    /\ UNCHANGED << aFlagNs, aKubeNs, aManifestNs, aObjNs, aErr, aModel >>
    /\ UNCHANGED << recVars, condVars, urlVars, bindVars, powVars >>

\* kubernetes.NewForConfig
ApplyClientset ==
    /\ aPc = "clientset"
    /\ \E fail \in BOOLEAN :
         IF fail THEN ApplyExit("clientset")
                 ELSE aPc' = "decode" /\ UNCHANGED aErr
    /\ UNCHANGED << aFlagNs, aKubeNs, aManifestNs, aNamespace, aObjNs, aModel >>
    /\ UNCHANGED << recVars, condVars, urlVars, bindVars, powVars >>

\* os.ReadFile and client.Decode
ApplyDecode ==
    /\ aPc = "decode"
    /\ \E err \in {NoErr, "reading file", "decoding"} :
         IF err # NoErr
         THEN ApplyExit(err) /\ UNCHANGED aObjNs
         ELSE aObjNs' = aManifestNs /\ aPc' = "object_namespace" /\ UNCHANGED aErr
    /\ UNCHANGED << aFlagNs, aKubeNs, aManifestNs, aNamespace, aModel >>
    /\ UNCHANGED << recVars, condVars, urlVars, bindVars, powVars >>

\* the branch on obj.GetNamespace()
ApplyObjectNamespace ==
    /\ aPc = "object_namespace"
    /\ LET o == objectNamespace(aObjNs, aNamespace, aFlagNs)
       IN  IF o.err # NoErr
           THEN ApplyExit(o.err) /\ UNCHANGED aObjNs
           ELSE aObjNs' = o.ns /\ aPc' = "resource" /\ UNCHANGED aErr
    /\ UNCHANGED << aFlagNs, aKubeNs, aManifestNs, aNamespace, aModel >>
    /\ UNCHANGED << recVars, condVars, urlVars, bindVars, powVars >>

\* c.Resource(obj)
ApplyResource ==
    /\ aPc = "resource"
    /\ \E fail \in BOOLEAN :
         IF fail THEN ApplyExit("resource client")
                 ELSE aPc' = "new_program" /\ UNCHANGED aErr
    /\ UNCHANGED << aFlagNs, aKubeNs, aManifestNs, aNamespace, aObjNs, aModel >>
    /\ UNCHANGED << recVars, condVars, urlVars, bindVars, powVars >>

\* tea.NewProgram((&tui.ApplyModel{...}).New())
ApplyNewProgram ==
    /\ aPc = "new_program"
    /\ aModel' = [started |-> TRUE, Namespace |-> aNamespace, ObjectNamespace |-> aObjNs]
    /\ aPc' = "program"
    /\ UNCHANGED << aFlagNs, aKubeNs, aManifestNs, aNamespace, aObjNs, aErr >>
    /\ UNCHANGED << recVars, condVars, urlVars, bindVars, powVars >>

\* tui.P.Run()
ApplyProgramRun ==
    /\ aPc = "program"
    /\ \E err \in {NoErr, "program"} : ApplyExit(err)
    /\ UNCHANGED << aFlagNs, aKubeNs, aManifestNs, aNamespace, aObjNs, aModel >>
    /\ UNCHANGED << recVars, condVars, urlVars, bindVars, powVars >>

InitApply ==
    /\ RecFixed /\ CondIdle /\ UrlIdle /\ BindIdle /\ PowIdle
    /\ aFlagNs \in NsValues /\ aKubeNs \in NsValues /\ aManifestNs \in NsValues
    /\ aPc = "config"
    /\ aNamespace = "" /\ aObjNs = "" /\ aErr = NoErr /\ aModel = NoModel

NextApply ==
    \/ ApplyBuildConfig
    \/ ApplyResolveNamespace
    \/ ApplyClientset
    \/ ApplyDecode
    \/ ApplyObjectNamespace
    \/ ApplyResource
    \/ ApplyNewProgram
    \/ ApplyProgramRun

SpecApply == InitApply /\ [][NextApply]_vars

\* C21 (as claimed): whenever the interactive program is started, the Namespace
\* handed to ApplyModel is the namespace of the Object handed to it, whatever
\* the manifest namespace, the flag and the kubeconfig namespace are; and with
\* a manifest namespace and a set flag that differ the program is never
\* started.
C21_NamespaceMatchesObject ==
    /\ aModel.started => aModel.Namespace = aModel.ObjectNamespace
    /\ ( aManifestNs # "" /\ aFlagNs # "" /\ aFlagNs # aManifestNs )
          => ~aModel.started

(***************************************************************************)
(* SpecPow: nextPowOf2 on every argument of a signed integer type of Width *)
(* bits (int64 in the source), the shift wrapping at that width.           *)
(***************************************************************************)
Width == 8

RECURSIVE Pow2(_)
Pow2(e) == IF e = 0 THEN 1 ELSE 2 * Pow2(e - 1)

MinInt == -Pow2(Width - 1)
MaxInt == Pow2(Width - 1) - 1

\* k << 1 on the signed type: the low Width bits of 2k, read in two's complement.
shiftLeft1(k) ==
    LET u == (2 * k) % Pow2(Width)
    IN  IF u >= Pow2(Width - 1) THEN u - Pow2(Width) ELSE u

\* for k < n
PowTest ==
    /\ pPc = "test"
    /\ pPc' = IF pK < pN THEN "shift" ELSE "returned"
    /\ UNCHANGED << pN, pK >>
    /\ UNCHANGED << recVars, condVars, urlVars, bindVars, applyVars >>

\* k = k << 1
PowShift ==
    /\ pPc = "shift"
    /\ pK' = shiftLeft1(pK)
    /\ pPc' = "test"
    /\ UNCHANGED pN
    /\ UNCHANGED << recVars, condVars, urlVars, bindVars, applyVars >>

InitPow ==
    /\ RecFixed /\ CondIdle /\ UrlIdle /\ BindIdle /\ ApplyIdle
    /\ pN \in MinInt..MaxInt
    /\ pK = 1
    /\ pPc = "test"

NextPow == PowTest \/ PowShift

\* The loop runs as long as it has a step to take.
SpecPow == InitPow /\ [][NextPow]_vars /\ WF_vars(NextPow)

\* k is the least power of two that is >= n (1 when n <= 1).
LeastPowOf2AtLeast(k, n) ==
    /\ \E e \in 0..(Width - 2) : k = Pow2(e)
    /\ k >= n
    /\ k = 1 \/ k \div 2 < n

\* C22 (as claimed): nextPowOf2(n) terminates for every n of the signed range,
\* and what it returns is the least power of two that is >= n, 1 for n <= 1.
C22_NextPowOf2 ==
    /\ <>(pPc = "returned")
    /\ [](pPc = "returned" => LeastPowOf2AtLeast(pK, pN))

====
